---- MODULE Spec2Model ----
(***************************************************************************)
(* rtftui: the search input of src/bin/main.rs.  App holds a String (a     *)
(* sequence of UTF-8 bytes), a cursor counted in characters and an input   *)
(* mode; App::run draws a frame, blocks for one event and dispatches it.   *)
(***************************************************************************)
EXTENDS Integers, Sequences, FiniteSets, TLC

(* Bound of the model: the buffer holds at most MaxLen characters. *)
MaxLen == 2

(* Code points of the characters a key event may carry:                    *)
(* 'q', 'i', '/' (one byte each), e-acute (two bytes), euro sign (three).  *)
Chars == {113, 105, 47, 233, 8364}

Kinds == {"Press", "Release", "Repeat"}

(* Key codes without a character payload; Tab stands for every key code    *)
(* that no match arm names.                                                *)
PlainCodes == {"Enter", "Backspace", "Left", "Right", "Esc", "Tab"}

(* The rectangles the layout gives the input box: on a terminal of 16 rows *)
(* frame.area() starts at (0, 0) and the input box follows the 12 rows of  *)
(* the content area.                                                       *)
InputAreas == {[x |-> 0, y |-> 12]}

----------------------------------------------------------------------------
(* UTF-8, as String and char implement it. *)

(* char::encode_utf8: the bytes of one code point. *)
encode_utf8(c) ==
    IF c < 128 THEN <<c>>
    ELSE IF c < 2048 THEN <<192 + (c \div 64), 128 + (c % 64)>>
    ELSE IF c < 65536
        THEN <<224 + (c \div 4096), 128 + ((c \div 64) % 64), 128 + (c % 64)>>
    ELSE <<240 + (c \div 262144), 128 + ((c \div 4096) % 64),
           128 + ((c \div 64) % 64), 128 + (c % 64)>>

(* Width in bytes of the character whose first byte is b. *)
utf8_char_width(b) ==
    IF b < 128 THEN 1
    ELSE IF b < 224 THEN 2
    ELSE IF b < 240 THEN 3
    ELSE 4

(* The code point encoded by the bytes bs of one character. *)
decode_utf8(bs) ==
    IF Len(bs) = 1 THEN bs[1]
    ELSE IF Len(bs) = 2 THEN (bs[1] - 192) * 64 + (bs[2] - 128)
    ELSE IF Len(bs) = 3
        THEN (bs[1] - 224) * 4096 + (bs[2] - 128) * 64 + (bs[3] - 128)
    ELSE (bs[1] - 240) * 262144 + (bs[2] - 128) * 4096
         + (bs[3] - 128) * 64 + (bs[4] - 128)

(* str::chars: the characters of a string, in order. *)
RECURSIVE chars(_)
chars(s) ==
    IF s = <<>> THEN <<>>
    ELSE LET w == utf8_char_width(s[1])
         IN  <<decode_utf8(SubSeq(s, 1, w))>> \o chars(SubSeq(s, w + 1, Len(s)))

(* str::char_indices().map(|(i, _)| i): the byte offset (from 0) at which  *)
(* each character starts.                                                  *)
RECURSIVE char_indices(_, _)
char_indices(s, off) ==
    IF s = <<>> THEN <<>>
    ELSE LET w == utf8_char_width(s[1])
         IN  <<off>> \o char_indices(SubSeq(s, w + 1, Len(s)), off + w)

(* Iterator::collect::<String>() of a sequence of characters. *)
RECURSIVE collect(_)
collect(cs) ==
    IF cs = <<>> THEN <<>> ELSE encode_utf8(Head(cs)) \o collect(Tail(cs))

(* str::is_char_boundary: offset idx (from 0) does not fall inside a       *)
(* character.                                                              *)
is_char_boundary(s, idx) ==
    \/ idx = 0
    \/ idx = Len(s)
    \/ idx < Len(s) /\ ~(s[idx + 1] >= 128 /\ s[idx + 1] < 192)

(* String::insert on a character boundary. *)
insert(s, idx, c) ==
    SubSeq(s, 1, idx) \o encode_utf8(c) \o SubSeq(s, idx + 1, Len(s))

(* Iterator::take and Iterator::skip. *)
take(cs, n) == SubSeq(cs, 1, IF n < Len(cs) THEN n ELSE Len(cs))
skip(cs, n) == SubSeq(cs, n + 1, Len(cs))

(* Ord::clamp. *)
clamp(v, lo, hi) == IF v < lo THEN lo ELSE IF v > hi THEN hi ELSE v

(* usize::saturating_sub(1); saturating_add(1) cannot saturate within the  *)
(* bound.                                                                  *)
saturating_sub(v, n) == IF v < n THEN 0 ELSE v - n
saturating_add(v, n) == v + n

----------------------------------------------------------------------------
(* App: the methods, each a function from the App value to the new one. *)

VARIABLES
    input,            \* App.input: the bytes of the String
    character_index,  \* App.character_index
    input_mode,       \* App.input_mode: "Normal" or "Searching"
    pc,               \* where main is
    terminal,         \* "cooked" or "raw"
    app_result,       \* what App::run returned: "none", "ok" or "err"
    frame,            \* what the last terminal.draw rendered
    event,            \* the event the last event::read returned
    before,           \* the App value when that event was read
    failure           \* the call whose error run returned, "none" if none

vars == <<input, character_index, input_mode, pc, terminal, app_result,
          frame, event, before, failure>>

(* The App value of the current state. *)
app == [input |-> input, character_index |-> character_index,
        input_mode |-> input_mode]

(* An App::new that starts in Normal mode. *)
new_in_normal == [input |-> <<>>, character_index |-> 0, input_mode |-> "Normal"]

(* App::new. *)
new == [input |-> <<>>, character_index |-> 0, input_mode |-> "Searching"]

(* A clamp_cursor that bounds by the length in bytes (input.len()). *)
clamp_cursor_by_bytes(self, new_cursor_pos) ==
    clamp(new_cursor_pos, 0, Len(self.input))

clamp_cursor(self, new_cursor_pos) ==
    clamp(new_cursor_pos, 0, Len(chars(self.input)))

(* A move_cursor_left that subtracts with wrap-around: at 0 the cursor      *)
(* becomes usize::MAX and is clamped to the character count.               *)
move_cursor_left_wrapping(self) ==
    IF self.character_index = 0
    THEN [self EXCEPT !.character_index = Len(chars(self.input))]
    ELSE [self EXCEPT !.character_index = self.character_index - 1]

move_cursor_left(self) ==
    LET cursor_moved_left == saturating_sub(self.character_index, 1)
    IN  [self EXCEPT !.character_index = clamp_cursor(self, cursor_moved_left)]

(* A move_cursor_right that does not clamp. *)
move_cursor_right_unclamped(self) ==
    [self EXCEPT !.character_index = saturating_add(self.character_index, 1)]

move_cursor_right(self) ==
    LET cursor_moved_right == saturating_add(self.character_index, 1)
    IN  [self EXCEPT !.character_index = clamp_cursor(self, cursor_moved_right)]

(* A byte_index that takes the character index for the byte offset. *)
byte_index_is_character_index(self) ==
    IF self.character_index < Len(self.input)
    THEN self.character_index
    ELSE Len(self.input)

(* A byte_index whose fallback is 0, not input.len(). *)
byte_index_unwrap_or_zero(self) ==
    LET starts == char_indices(self.input, 0)
    IN  IF self.character_index < Len(starts)
        THEN starts[self.character_index + 1]
        ELSE 0

byte_index(self) ==
    LET starts == char_indices(self.input, 0)
    IN  IF self.character_index < Len(starts)
        THEN starts[self.character_index + 1]
        ELSE Len(self.input)

(* String::insert panics when the offset is no character boundary. *)
enter_char_panics(self) == ~is_char_boundary(self.input, byte_index(self))

enter_char(self, new_char) ==
    LET index == byte_index(self)
    IN  move_cursor_right([self EXCEPT !.input = insert(self.input, index, new_char)])

(* A delete_char that forgets to move the cursor. *)
delete_char_keeps_cursor(self) ==
    IF self.character_index # 0
    THEN [self EXCEPT !.input =
             collect(take(chars(self.input), self.character_index - 1)
                     \o skip(chars(self.input), self.character_index))]
    ELSE self

(* A delete_char that removes the character under the cursor, not the one  *)
(* before it.                                                              *)
delete_char_at_cursor(self) ==
    IF self.character_index # 0
    THEN [self EXCEPT
             !.input = collect(take(chars(self.input), self.character_index)
                               \o skip(chars(self.input), self.character_index + 1)),
             !.character_index = self.character_index - 1]
    ELSE self

delete_char(self) ==
    LET is_not_cursor_leftmost == self.character_index # 0
    IN  IF is_not_cursor_leftmost
        THEN LET current_index == self.character_index
                 from_left_to_current_index == current_index - 1
                 before_char_to_delete ==
                     take(chars(self.input), from_left_to_current_index)
                 after_char_to_delete == skip(chars(self.input), current_index)
             IN  move_cursor_left(
                     [self EXCEPT !.input =
                         collect(before_char_to_delete \o after_char_to_delete)])
        ELSE self

(* A reset_cursor that leaves the cursor where it is. *)
reset_cursor_forgotten(self) == self

reset_cursor(self) == [self EXCEPT !.character_index = 0]

(* A submit_message that also leaves search mode. *)
submit_message_leaves_search(self) ==
    [input |-> <<>>, character_index |-> 0, input_mode |-> "Normal"]

submit_message(self) == reset_cursor([self EXCEPT !.input = <<>>])

----------------------------------------------------------------------------
(* App::draw: what a frame shows of the App value.  The cursor is absent   *)
(* (hidden) in Normal mode; in Searching mode it is the Position given to  *)
(* set_cursor_position, the character index cast to u16.                   *)
(* A draw that puts the cursor at the byte offset of the character index. *)
draw_cursor_at_byte_index(self, input_area) ==
    [text |-> self.input,
     mode |-> self.input_mode,
     cursor |-> IF self.input_mode = "Normal"
                THEN <<>>
                ELSE <<input_area.x + (byte_index(self) % 65536) + 1,
                       input_area.y + 1>>]

draw(self, input_area) ==
    [text |-> self.input,
     mode |-> self.input_mode,
     cursor |-> IF self.input_mode = "Normal"
                THEN <<>>
                ELSE <<input_area.x + (self.character_index % 65536) + 1,
                       input_area.y + 1>>]

NoFrame == [text |-> <<>>, mode |-> "None", cursor |-> <<>>]

(* Events.  A key event has a code, the character of a Char code, and a    *)
(* kind; NotKey is any other Event (resize, mouse, focus, paste).          *)
KeyEvent(code, ch, kind) == [code |-> code, ch |-> ch, kind |-> kind]
NoEvent == KeyEvent("None", 0, "Press")
NotKeyEvent == KeyEvent("NotKey", 0, "Press")

Init ==
    /\ input = new.input
    /\ character_index = new.character_index
    /\ input_mode = new.input_mode
    /\ pc = "start"
    /\ terminal = "cooked"
    /\ app_result = "none"
    /\ frame = NoFrame
    /\ event = NoEvent
    /\ before = new
    /\ failure = "none"

(* main: color_eyre::install()? returns Ok (it is the first statement of   *)
(* the process, and install fails only when a hook is installed already)   *)
(* and ratatui::init() puts the terminal in raw mode; run starts with its  *)
(* first draw.                                                             *)
MainInit ==
    /\ pc = "start"
    /\ terminal' = "raw"
    /\ pc' = "draw"
    /\ UNCHANGED <<input, character_index, input_mode, app_result, frame,
                   event, before, failure>>

(* run: terminal.draw(|frame| self.draw(frame))? succeeds. *)
Draw ==
    /\ pc = "draw"
    /\ \E input_area \in InputAreas : frame' = draw(app, input_area)
    /\ pc' = "read"
    /\ UNCHANGED <<input, character_index, input_mode, terminal, app_result,
                   event, before, failure>>

(* A main that propagates the error of run with ? and so returns before    *)
(* ratatui::restore().                                                     *)
DrawFailEarlyReturn ==
    /\ pc = "draw"
    /\ app_result' = "err"
    /\ failure' = "draw"
    /\ pc' = "exit"
    /\ UNCHANGED <<input, character_index, input_mode, terminal, frame,
                   event, before>>

(* run: terminal.draw(..)? fails; run returns the error. *)
DrawFail ==
    /\ pc = "draw"
    /\ app_result' = "err"
    /\ failure' = "draw"
    /\ pc' = "restore"
    /\ UNCHANGED <<input, character_index, input_mode, terminal, frame,
                   event, before>>

(* What makes event::read() return Err: a failed read of the terminal, or  *)
(* the end of the input stream.  event::read() returns Result<Event>: an   *)
(* Event or an Err, so the end of the stream is an Err when it is reported *)
(* at all.                                                                 *)
ReadErrors == {"read", "end_of_stream"}

(* A run that notes the error of event::read() and goes on with the loop. *)
ReadFailRetried ==
    /\ pc = "read"
    /\ app_result' = "err"
    /\ \E cause \in ReadErrors : failure' = cause
    /\ pc' = "draw"
    /\ UNCHANGED <<input, character_index, input_mode, terminal, frame,
                   event, before>>

(* A run that takes an error of event::read() for the end of the input and *)
(* returns Ok(()).                                                         *)
ReadFailReturnsOk ==
    /\ pc = "read"
    /\ app_result' = "ok"
    /\ \E cause \in ReadErrors : failure' = cause
    /\ pc' = "restore"
    /\ UNCHANGED <<input, character_index, input_mode, terminal, frame,
                   event, before>>

(* run: event::read()? fails; run returns the error. *)
ReadFail ==
    /\ pc = "read"
    /\ app_result' = "err"
    /\ \E cause \in ReadErrors : failure' = cause
    /\ pc' = "restore"
    /\ UNCHANGED <<input, character_index, input_mode, terminal, frame,
                   event, before>>

(* The part every arm of the dispatch shares: event::read() returned ev,   *)
(* the App value becomes next and the loop goes to pcNext.                 *)
Dispatch(ev, next, pcNext) ==
    /\ pc = "read"
    /\ event' = ev
    /\ before' = app
    /\ input' = next.input
    /\ character_index' = next.character_index
    /\ input_mode' = next.input_mode
    /\ pc' = pcNext
    /\ UNCHANGED <<terminal, frame, failure>>

(* run: the event is no Event::Key; the if let does not match. *)
ReadNotKey ==
    /\ Dispatch(NotKeyEvent, app, "draw")
    /\ UNCHANGED app_result

(* Normal mode, KeyCode::Char('i') | KeyCode::Char('/'). *)
NormalEnterSearch ==
    /\ input_mode = "Normal"
    /\ \E c \in {105, 47}, kind \in Kinds :
           Dispatch(KeyEvent("Char", c, kind),
                    [app EXCEPT !.input_mode = "Searching"], "draw")
    /\ UNCHANGED app_result

(* A Normal mode in which 'q' is one more ignored key. *)
NormalQuitIgnored ==
    /\ input_mode = "Normal"
    /\ \E kind \in Kinds : Dispatch(KeyEvent("Char", 113, kind), app, "draw")
    /\ UNCHANGED app_result

(* A Normal mode that checks the kind: only a pressed 'q' returns Ok(()). *)
NormalQuitPressOnly ==
    /\ input_mode = "Normal"
    /\ \/ /\ Dispatch(KeyEvent("Char", 113, "Press"), app, "restore")
          /\ app_result' = "ok"
       \/ /\ \E kind \in Kinds \ {"Press"} :
                 Dispatch(KeyEvent("Char", 113, kind), app, "draw")
          /\ UNCHANGED app_result

(* Normal mode, KeyCode::Char('q'): return Ok(()). *)
NormalQuit ==
    /\ input_mode = "Normal"
    /\ \E kind \in Kinds : Dispatch(KeyEvent("Char", 113, kind), app, "restore")
    /\ app_result' = "ok"

(* A Normal mode in which Backspace deletes as in Searching mode. *)
NormalOtherEdits ==
    /\ input_mode = "Normal"
    /\ \E kind \in Kinds :
           \/ \E c \in Chars \ {105, 47, 113} :
                  Dispatch(KeyEvent("Char", c, kind), app, "draw")
           \/ Dispatch(KeyEvent("Backspace", 0, kind), delete_char(app), "draw")
           \/ \E code \in PlainCodes \ {"Backspace"} :
                  Dispatch(KeyEvent(code, 0, kind), app, "draw")
    /\ UNCHANGED app_result

(* Normal mode, any other key code. *)
NormalOther ==
    /\ input_mode = "Normal"
    /\ \E kind \in Kinds :
           \/ \E c \in Chars \ {105, 47, 113} :
                  Dispatch(KeyEvent("Char", c, kind), app, "draw")
           \/ \E code \in PlainCodes :
                  Dispatch(KeyEvent(code, 0, kind), app, "draw")
    /\ UNCHANGED app_result

(* Searching mode, Press, KeyCode::Enter. *)
SearchEnter ==
    /\ input_mode = "Searching"
    /\ Dispatch(KeyEvent("Enter", 0, "Press"), submit_message(app), "draw")
    /\ UNCHANGED app_result

(* Searching mode, Press, KeyCode::Char(to_insert).  The model stops       *)
(* accepting characters at MaxLen.                                         *)
SearchChar ==
    /\ input_mode = "Searching"
    /\ Len(chars(input)) < MaxLen
    /\ \E to_insert \in Chars :
           IF enter_char_panics(app)
           THEN Dispatch(KeyEvent("Char", to_insert, "Press"), app, "panicked")
           ELSE Dispatch(KeyEvent("Char", to_insert, "Press"),
                         enter_char(app, to_insert), "draw")
    /\ UNCHANGED app_result

(* Searching mode, Press, KeyCode::Backspace. *)
SearchBackspace ==
    /\ input_mode = "Searching"
    /\ Dispatch(KeyEvent("Backspace", 0, "Press"), delete_char(app), "draw")
    /\ UNCHANGED app_result

(* A Searching mode that does not redraw after Left. *)
SearchLeftNoRedraw ==
    /\ input_mode = "Searching"
    /\ Dispatch(KeyEvent("Left", 0, "Press"), move_cursor_left(app), "read")
    /\ UNCHANGED app_result

(* Searching mode, Press, KeyCode::Left. *)
SearchLeft ==
    /\ input_mode = "Searching"
    /\ Dispatch(KeyEvent("Left", 0, "Press"), move_cursor_left(app), "draw")
    /\ UNCHANGED app_result

(* Searching mode, Press, KeyCode::Right. *)
SearchRight ==
    /\ input_mode = "Searching"
    /\ Dispatch(KeyEvent("Right", 0, "Press"), move_cursor_right(app), "draw")
    /\ UNCHANGED app_result

(* A Searching mode in which Esc returns Ok(()). *)
SearchEscQuits ==
    /\ input_mode = "Searching"
    /\ Dispatch(KeyEvent("Esc", 0, "Press"), app, "restore")
    /\ app_result' = "ok"

(* Searching mode, Press, KeyCode::Esc. *)
SearchEsc ==
    /\ input_mode = "Searching"
    /\ Dispatch(KeyEvent("Esc", 0, "Press"),
                [app EXCEPT !.input_mode = "Normal"], "draw")
    /\ UNCHANGED app_result

(* Searching mode, Press, any other key code. *)
SearchOther ==
    /\ input_mode = "Searching"
    /\ Dispatch(KeyEvent("Tab", 0, "Press"), app, "draw")
    /\ UNCHANGED app_result

(* A Searching arm without the guard on the kind: Release and Repeat edit  *)
(* like Press.                                                             *)
SearchNotPressHonoured ==
    /\ input_mode = "Searching"
    /\ \E kind \in Kinds \ {"Press"} :
           \/ Dispatch(KeyEvent("Enter", 0, kind), submit_message(app), "draw")
           \/ Dispatch(KeyEvent("Backspace", 0, kind), delete_char(app), "draw")
           \/ Dispatch(KeyEvent("Left", 0, kind), move_cursor_left(app), "draw")
           \/ Dispatch(KeyEvent("Right", 0, kind), move_cursor_right(app), "draw")
           \/ Dispatch(KeyEvent("Esc", 0, kind),
                       [app EXCEPT !.input_mode = "Normal"], "draw")
           \/ Dispatch(KeyEvent("Tab", 0, kind), app, "draw")
           \/ /\ Len(chars(input)) < MaxLen
              /\ \E c \in Chars :
                     Dispatch(KeyEvent("Char", c, kind), enter_char(app, c), "draw")
    /\ UNCHANGED app_result

(* Searching mode, the kind is not Press: the guarded arm does not match   *)
(* and the arm InputMode::Searching => {} does.                            *)
SearchNotPress ==
    /\ input_mode = "Searching"
    /\ \E kind \in Kinds \ {"Press"} :
           \/ \E c \in Chars : Dispatch(KeyEvent("Char", c, kind), app, "draw")
           \/ \E code \in PlainCodes :
                  Dispatch(KeyEvent(code, 0, kind), app, "draw")
    /\ UNCHANGED app_result

(* main: ratatui::restore() after run returned; main then returns          *)
(* app_result.                                                             *)
Restore ==
    /\ pc = "restore"
    /\ terminal' = "cooked"
    /\ pc' = "exit"
    /\ UNCHANGED <<input, character_index, input_mode, app_result, frame,
                   event, before, failure>>

Next ==
    \/ MainInit
    \/ Draw
    \/ DrawFail
    \/ ReadFail
    \/ ReadNotKey
    \/ NormalEnterSearch
    \/ NormalQuit
    \/ NormalOther
    \/ SearchEnter
    \/ SearchChar
    \/ SearchBackspace
    \/ SearchLeft
    \/ SearchRight
    \/ SearchEsc
    \/ SearchOther
    \/ SearchNotPress
    \/ Restore

Spec == Init /\ [][Next]_vars

----------------------------------------------------------------------------
(* Properties. *)

(* character_count of a String. *)
count(s) == Len(chars(s))

(* The last event read was a key event of code and kind, read in mode. *)
Read(mode, code, kind) ==
    /\ before.input_mode = mode
    /\ event.code = code
    /\ event.kind = kind

(* run is blocked in event::read: the next step dispatches an event on the *)
(* current App value.                                                      *)
AwaitingEvent == pc = "read"

(* A multi-byte character. *)
Wide(c) == Len(encode_utf8(c)) > 1

(* C1: in every reachable state 0 <= character_index <= the number of      *)
(* characters (not bytes) of input.                                        *)
C1_CursorInRange ==
    /\ character_index >= 0
    /\ character_index <= count(input)

(* Right was pressed with the cursor at the end of a buffer that has more  *)
(* bytes than characters, and the cursor stayed at the character count.    *)
C1_Witness ==
    /\ Read("Searching", "Right", "Press")
    /\ before.character_index = count(input)
    /\ character_index = count(input)
    /\ count(input) > 0
    /\ Len(input) > count(input)

(* C2: from every App value an event is awaited with and for every         *)
(* character c,                                                            *)
(* enter_char(c) followed by delete_char() gives back the same input and   *)
(* character_index.                                                        *)
C2_RoundTrip ==
    AwaitingEvent
        => \A c \in Chars :
               /\ ~enter_char_panics(app)
               /\ delete_char(enter_char(app, c)) = app

(* Backspace was pressed on a buffer that is the current one with a        *)
(* multi-byte character entered at the current cursor, next to another     *)
(* multi-byte character.                                                   *)
C2_Witness ==
    /\ Read("Searching", "Backspace", "Press")
    /\ input # <<>>
    /\ Len(input) > count(input)
    /\ \E c \in Chars : Wide(c) /\ before = enter_char(app, c)

(* C3: Left pressed with the cursor at 0, Right pressed with the cursor at *)
(* the character count and Backspace pressed with the cursor at 0 leave    *)
(* input, character_index and input_mode as they were.                     *)
C3_BoundaryNoOp ==
    /\ Read("Searching", "Left", "Press") /\ before.character_index = 0
           => app = before
    /\ Read("Searching", "Right", "Press")
           /\ before.character_index = count(before.input)
           => app = before
    /\ Read("Searching", "Backspace", "Press") /\ before.character_index = 0
           => app = before
    /\ AwaitingEvent
           => LET leftmost == [app EXCEPT !.character_index = 0]
                  rightmost == [app EXCEPT !.character_index = count(input)]
              IN  /\ move_cursor_left(leftmost) = leftmost
                  /\ delete_char(leftmost) = leftmost
                  /\ move_cursor_right(rightmost) = rightmost

(* Right was pressed at the end of a non-empty buffer with a multi-byte    *)
(* character.                                                              *)
C3_Witness ==
    /\ Read("Searching", "Right", "Press")
    /\ before.character_index = count(before.input)
    /\ count(before.input) = MaxLen
    /\ Len(before.input) > MaxLen
    /\ pc = "read"

(* The characters old with c put at character position p, and with the     *)
(* character before position p taken out.                                  *)
Inserted(old, p, c) == SubSeq(old, 1, p) \o <<c>> \o SubSeq(old, p + 1, Len(old))
Removed(old, p) == SubSeq(old, 1, p - 1) \o SubSeq(old, p + 1, Len(old))

(* A String is valid text: decoding and encoding it gives it back. *)
ValidText(s) == collect(chars(s)) = s

(* C4: 'q' pressed in Searching mode is inserted at the cursor and run     *)
(* does not return Ok; 'q' pressed in Normal mode makes run return Ok and  *)
(* leaves the App value as it was.                                         *)
C4_QuitGating ==
    /\ Read("Searching", "Char", "Press") /\ event.ch = 113
           => /\ chars(input) =
                     Inserted(chars(before.input), before.character_index, 113)
              /\ input_mode = "Searching"
              /\ app_result # "ok"
              /\ pc # "panicked"
    /\ Read("Normal", "Char", "Press") /\ event.ch = 113
           => /\ app_result = "ok"
              /\ pc \in {"restore", "exit"}
              /\ app = before

(* 'q' was pressed in Normal mode on a buffer that holds a 'q' typed in    *)
(* Searching mode, and run returned Ok.                                    *)
C4_Witness ==
    /\ Read("Normal", "Char", "Press")
    /\ event.ch = 113
    /\ app_result = "ok"
    /\ \E i \in 1..count(input) : chars(input)[i] = 113

(* C5: a step changes input_mode only when it dispatches 'i' or '/' in     *)
(* Normal mode or a pressed Esc in Searching mode, such a step leaves      *)
(* input and character_index unchanged, and these events do change the     *)
(* mode.                                                                   *)
C5_ModeTransitions ==
    [][/\ input_mode' # input_mode
           => /\ pc = "read"
              /\ \/ /\ input_mode = "Normal"
                    /\ event'.code = "Char"
                    /\ event'.ch \in {105, 47}
                 \/ /\ input_mode = "Searching"
                    /\ event' = KeyEvent("Esc", 0, "Press")
              /\ input' = input
              /\ character_index' = character_index
       /\ (/\ pc = "read"
           /\ app_result' # "err"
           /\ input_mode = "Normal"
           /\ event'.code = "Char"
           /\ event'.ch \in {105, 47})
           => input_mode' = "Searching"
       /\ (/\ pc = "read"
           /\ app_result' # "err"
           /\ input_mode = "Searching"
           /\ event' = KeyEvent("Esc", 0, "Press"))
           => input_mode' = "Normal"]_vars

(* '/' was read in Normal mode with a non-empty buffer and the mode is     *)
(* Searching.                                                              *)
C5_Witness ==
    /\ before.input_mode = "Normal"
    /\ event.code = "Char"
    /\ event.ch = 47
    /\ input_mode = "Searching"
    /\ input # <<>>
    /\ character_index > 0

(* C6: Enter pressed in Searching mode leaves the empty buffer, the cursor *)
(* at 0 and the mode Searching, and run does not return Ok.                *)
C6_Submit ==
    Read("Searching", "Enter", "Press")
        => /\ input = <<>>
           /\ character_index = 0
           /\ input_mode = "Searching"
           /\ app_result # "ok"

(* Enter was pressed with a full buffer and the cursor at its end, and the *)
(* loop went on to the next read.                                          *)
C6_Witness ==
    /\ Read("Searching", "Enter", "Press")
    /\ count(before.input) = MaxLen
    /\ before.character_index = MaxLen
    /\ pc = "read"

(* C7: in Searching mode a key event whose kind is Release or Repeat       *)
(* leaves the App value as it was, whatever its code, and run does not     *)
(* return Ok.                                                              *)
C7_PressOnly ==
    (/\ before.input_mode = "Searching"
     /\ event.kind \in {"Release", "Repeat"}
     /\ event.code \in PlainCodes \cup {"Char"})
        => /\ app = before
           /\ app_result # "ok"

(* The Release of a multi-byte character was read when the buffer held     *)
(* that character once: the pair of press and release made one edit.       *)
C7_Witness ==
    /\ before.input_mode = "Searching"
    /\ event.kind = "Release"
    /\ event.code = "Char"
    /\ Wide(event.ch)
    /\ chars(input) = <<event.ch>>
    /\ character_index = 1

(* C8: a character pressed in Searching mode with the cursor at p gives    *)
(* the old characters with the new one at position p, the cursor at p + 1, *)
(* one character more and valid text; so does enter_char on every          *)
(* reachable App value, and String::insert never panics.                   *)
C8_Insert ==
    /\ pc # "panicked"
    /\ Read("Searching", "Char", "Press")
           => LET old == chars(before.input)
                  p == before.character_index
              IN  /\ chars(input) = Inserted(old, p, event.ch)
                  /\ character_index = p + 1
                  /\ count(input) = Len(old) + 1
                  /\ input_mode = "Searching"
                  /\ ValidText(input)
    /\ AwaitingEvent
           => \A c \in Chars :
                  /\ ~enter_char_panics(app)
                  /\ LET r == enter_char(app, c)
                     IN  /\ chars(r.input) =
                                Inserted(chars(input), character_index, c)
                         /\ r.character_index = character_index + 1
                         /\ r.input_mode = input_mode
                         /\ ValidText(r.input)

(* A multi-byte character was pressed with the cursor behind a multi-byte  *)
(* character, where the byte offset differs from the character index.      *)
C8_Witness ==
    /\ Read("Searching", "Char", "Press")
    /\ Wide(event.ch)
    /\ before.character_index = 1
    /\ Wide(chars(before.input)[1])
    /\ count(input) = 2

(* The buffer h, e-acute, l, l, o. *)
Hello == <<104, 233, 108, 108, 111>>
HelloApp(p) ==
    [input |-> collect(Hello), character_index |-> p, input_mode |-> "Searching"]

(* C9: Backspace pressed in Searching mode with the cursor at p > 0 takes  *)
(* out the character at index p - 1 and no other, and puts the cursor at   *)
(* p - 1; so does delete_char on every reachable App value, and on         *)
(* h, e-acute, l, l, o with the cursor at 2 it leaves h, l, l, o with the  *)
(* cursor at 1.                                                            *)
C9_Delete ==
    /\ Read("Searching", "Backspace", "Press") /\ before.character_index > 0
           => /\ chars(input) =
                     Removed(chars(before.input), before.character_index)
              /\ character_index = before.character_index - 1
              /\ input_mode = "Searching"
              /\ ValidText(input)
    /\ AwaitingEvent /\ character_index > 0
           => LET r == delete_char(app)
              IN  /\ chars(r.input) = Removed(chars(input), character_index)
                  /\ r.character_index = character_index - 1
                  /\ r.input_mode = input_mode
                  /\ ValidText(r.input)
    /\ AwaitingEvent
           => delete_char(HelloApp(2)) =
                  [input |-> collect(<<104, 108, 108, 111>>),
                   character_index |-> 1, input_mode |-> "Searching"]

(* Backspace was pressed with the cursor at 2 behind a multi-byte          *)
(* character that follows another multi-byte character; the first one is   *)
(* what is left.                                                           *)
C9_Witness ==
    /\ Read("Searching", "Backspace", "Press")
    /\ before.character_index = 2
    /\ Wide(chars(before.input)[1])
    /\ Wide(chars(before.input)[2])
    /\ chars(input) = <<chars(before.input)[1]>>
    /\ character_index = 1

(* k times move_cursor_right. *)
RECURSIVE Rights(_, _)
Rights(self, k) == IF k = 0 THEN self ELSE move_cursor_right(Rights(self, k - 1))

Min(a, b) == IF a < b THEN a ELSE b
Max(a, b) == IF a > b THEN a ELSE b

(* C10: Left pressed in Searching mode puts the cursor at max(0, p - 1),   *)
(* Right at min(character count, p + 1), both leaving input and mode; and  *)
(* from the cursor at 0, k times move_cursor_right put it at k up to the   *)
(* character count n and leave it at n from there on, on every reachable   *)
(* buffer and on h, e-acute, l, l, o.                                      *)
C10_Moves ==
    /\ Read("Searching", "Left", "Press")
           => app = [before EXCEPT
                        !.character_index = Max(0, before.character_index - 1)]
    /\ Read("Searching", "Right", "Press")
           => app = [before EXCEPT
                        !.character_index =
                            Min(count(before.input), before.character_index + 1)]
    /\ AwaitingEvent
           => /\ move_cursor_left(app) =
                     [app EXCEPT !.character_index = Max(0, character_index - 1)]
              /\ \A k \in 0..(count(input) + 1) :
                     Rights([app EXCEPT !.character_index = 0], k) =
                         [app EXCEPT !.character_index = Min(count(input), k)]
              /\ \A k \in 0..6 :
                     Rights(HelloApp(0), k) = HelloApp(Min(5, k))

(* Right was pressed with the cursor at 1 in a buffer of two multi-byte    *)
(* characters and the cursor is at 2.                                      *)
C10_Witness ==
    /\ Read("Searching", "Right", "Press")
    /\ before.character_index = 1
    /\ character_index = 2
    /\ Wide(chars(input)[1])
    /\ Wide(chars(input)[2])

(* C11: until the first event is read the App value is the empty buffer,   *)
(* the cursor at 0 and the mode Searching; and a 'q' pressed on that value *)
(* is inserted and run does not return Ok.                                 *)
C11_InitialState ==
    /\ event = NoEvent
           => /\ input = <<>>
              /\ character_index = 0
              /\ input_mode = "Searching"
    /\ (/\ event = KeyEvent("Char", 113, "Press")
        /\ before = [input |-> <<>>, character_index |-> 0,
                     input_mode |-> "Searching"])
           => /\ chars(input) = <<113>>
              /\ character_index = 1
              /\ input_mode = "Searching"
              /\ app_result # "ok"

(* 'q' was pressed on the App value of a fresh run and the loop awaits the *)
(* next event with the buffer "q".                                         *)
C11_Witness ==
    /\ event = KeyEvent("Char", 113, "Press")
    /\ before = [input |-> <<>>, character_index |-> 0,
                 input_mode |-> "Searching"]
    /\ chars(input) = <<113>>
    /\ pc = "read"

(* C12: main has returned only with the terminal restored, and once run    *)
(* has returned, with Ok or with an error, the only thing main does before *)
(* it returns is ratatui::restore() on the terminal still in raw mode.     *)
C12_TerminalRestored ==
    /\ pc = "exit" => terminal = "cooked"
    /\ (app_result # "none" /\ pc # "exit")
           => /\ pc = "restore"
              /\ terminal = "raw"

(* main has returned the error of a failed draw, after ratatui::init(),    *)
(* and the terminal is restored.                                           *)
C12_Witness ==
    /\ pc = "exit"
    /\ app_result = "err"
    /\ failure = "draw"
    /\ frame # NoFrame
    /\ terminal = "cooked"

(* C13: the step in which a draw or an event read fails ends run with the  *)
(* error and leaves the App value and the last event as they were; from    *)
(* then on the only step is the return of main, and no event is read, no   *)
(* frame drawn and nothing of the App value changed.                       *)
C13_FatalFailure ==
    [][/\ (app_result # "err" /\ app_result' = "err")
           => /\ pc \in {"draw", "read"}
              /\ pc' = "restore"
              /\ failure' # "none"
              /\ app' = app
              /\ event' = event
              /\ before' = before
              /\ frame' = frame
       /\ app_result = "err"
           => /\ pc = "restore"
              /\ pc' = "exit"
              /\ app_result' = "err"
              /\ failure' = failure
              /\ app' = app
              /\ event' = event
              /\ before' = before
              /\ frame' = frame]_vars

(* main has returned the error of a failed event read, with a non-empty    *)
(* buffer and an event read before the failure.                            *)
C13_Witness ==
    /\ pc = "exit"
    /\ app_result = "err"
    /\ failure = "read"
    /\ input # <<>>
    /\ event.code = "Char"

(* The last event read was 'q' in Normal mode. *)
QuitRead == before.input_mode = "Normal" /\ event.code = "Char" /\ event.ch = 113

(* C14, as stated: main returns Ok (exit code 0) after the quit key and    *)
(* after the end of the input stream, and an error only after a failed     *)
(* draw or a failed read of the terminal.                                  *)
C14_Original ==
    pc = "exit"
        => /\ (QuitRead \/ failure = "end_of_stream") => app_result = "ok"
           /\ app_result = "err" => failure \in {"draw", "read"}

(* C14, amended: main returns Ok (exit code 0) exactly after the quit key, *)
(* and an error after every failed draw and every failed event read, the   *)
(* end of the input stream included.                                       *)
C14_ExitCodes ==
    pc = "exit"
        => /\ app_result \in {"ok", "err"}
           /\ app_result = "ok" <=> (QuitRead /\ failure = "none")
           /\ app_result = "err" <=> failure \in {"draw"} \cup ReadErrors

(* main has returned an error after the input stream ended. *)
C14_Witness ==
    /\ pc = "exit"
    /\ failure = "end_of_stream"
    /\ app_result = "err"
    /\ terminal = "cooked"

WidthOfFirst(s, n) == Len(collect(take(chars(s), n)))

(* C16: input is valid text in every reachable state and String::insert    *)
(* never panics; while run awaits an event, byte_index() is the number of  *)
(* bytes of the first character_index characters, input.len() when the     *)
(* cursor is at the end, and a character boundary.                         *)
C16_ByteIndex ==
    /\ pc # "panicked"
    /\ ValidText(input)
    /\ AwaitingEvent
           => /\ byte_index(app) = WidthOfFirst(input, character_index)
              /\ is_char_boundary(input, byte_index(app))
              /\ character_index = count(input) => byte_index(app) = Len(input)

(* A character was entered behind a character of three bytes: at the byte  *)
(* offset 3 for the character index 1.                                     *)
C16_Witness ==
    /\ Read("Searching", "Char", "Press")
    /\ before.character_index = 1
    /\ count(before.input) = 1
    /\ byte_index(before) = 3
    /\ chars(input) = chars(before.input) \o <<event.ch>>

(* The step reads an event and dispatches it (event::read() returned Ok). *)
DispatchStep == pc = "read" /\ app_result' # "err"

(* C17: run returns Ok in a step exactly when the step dispatches a key    *)
(* event with 'q' in Normal mode; every other dispatch goes on with the    *)
(* next draw, and no step but a dispatch or a failure ends the loop.       *)
C17_QuitOnly ==
    [][/\ (app_result # "ok" /\ app_result' = "ok")
           => /\ DispatchStep
              /\ input_mode = "Normal"
              /\ event'.code = "Char"
              /\ event'.ch = 113
       /\ (DispatchStep /\ input_mode = "Normal"
               /\ event'.code = "Char" /\ event'.ch = 113)
           => /\ app_result' = "ok"
              /\ pc' = "restore"
       /\ (DispatchStep /\ ~(input_mode = "Normal"
               /\ event'.code = "Char" /\ event'.ch = 113))
           => /\ app_result' = "none"
              /\ pc' = "draw"
       /\ (pc \in {"draw", "read"} /\ pc' \notin {"draw", "read"})
           => app_result' \in {"ok", "err"}]_vars

(* main has returned Ok after a pressed 'q'. *)
C17_Witness ==
    /\ pc = "exit"
    /\ app_result = "ok"
    /\ QuitRead
    /\ event.kind = "Press"
    /\ failure = "none"

(* C18: run awaits an event only right after a draw of the current App     *)
(* value; a frame is drawn only in that step; the App value, the event and *)
(* its snapshot change only in a step that leaves the read, which goes to  *)
(* the next draw or to the return of run; and that step dispatches on the  *)
(* App value that was drawn.                                               *)
C18_DrawThenRead ==
    [][/\ pc' = "read"
           => /\ pc = "draw"
              /\ \E input_area \in InputAreas : frame' = draw(app, input_area)
              /\ app' = app
              /\ event' = event
       /\ frame' # frame => (pc = "draw" /\ pc' = "read")
       /\ (app' # app \/ event' # event \/ before' # before)
           => /\ pc = "read"
              /\ pc' \in {"draw", "restore"}
              /\ before' = app
              /\ \E input_area \in InputAreas : frame = draw(app, input_area)
       /\ (pc = "read" /\ pc' = "draw") => app_result' = "none"]_vars

(* Left was pressed, the cursor moved, and the frame on the screen while   *)
(* the next event is awaited shows the moved cursor.                       *)
C18_Witness ==
    /\ AwaitingEvent
    /\ Read("Searching", "Left", "Press")
    /\ character_index + 1 = before.character_index
    /\ input # <<>>
    /\ \E input_area \in InputAreas : frame = draw(app, input_area)

(* C19: a step taken in Normal mode leaves input and character_index as    *)
(* they are, and so does the step that enters Normal mode; so from Esc to  *)
(* the return to Searching mode the buffer and the cursor stay the same.   *)
C19_NormalDoesNotEdit ==
    [][/\ input_mode = "Normal"
           => /\ input' = input
              /\ character_index' = character_index
       /\ (input_mode = "Searching" /\ input_mode' = "Normal")
           => /\ input' = input
              /\ character_index' = character_index]_vars

(* Backspace was pressed in Normal mode on a full buffer with the cursor   *)
(* at its end, and both are as they were.                                  *)
C19_Witness ==
    /\ AwaitingEvent
    /\ Read("Normal", "Backspace", "Press")
    /\ count(input) = MaxLen
    /\ character_index = MaxLen

(* C20: in Normal mode a Release or Repeat of 'i' or '/' switches to       *)
(* Searching mode and a Release or Repeat of 'q' makes run return Ok, as a *)
(* Press does; the App value is otherwise unchanged.                       *)
C20_NormalIgnoresKind ==
    (/\ before.input_mode = "Normal"
     /\ event.code = "Char"
     /\ event.kind \in {"Release", "Repeat"})
        => /\ event.ch \in {105, 47}
                  => /\ app = [before EXCEPT !.input_mode = "Searching"]
                     /\ app_result # "ok"
           /\ event.ch = 113
                  => /\ app_result = "ok"
                     /\ pc \in {"restore", "exit"}
                     /\ app = before

(* After Press 'q' in Searching mode, Press Esc and Release 'q': main has  *)
(* returned Ok and the buffer is "q".                                      *)
C20_Witness ==
    /\ event = KeyEvent("Char", 113, "Release")
    /\ before = [input |-> <<113>>, character_index |-> 1,
                 input_mode |-> "Normal"]
    /\ app = before
    /\ app_result = "ok"
    /\ pc = "exit"

====
